---- MODULE Spec2Model ----
(***************************************************************************)
(* Model of ball.py: the Respiratory Therapy Device.  A Tk window shows    *)
(* three ball indicators beside a ruler; a self-rescheduling callback,     *)
(* update_frame, captures a camera frame, detects one ball per colour and  *)
(* redraws the indicators; on_closing stops the camera and destroys the    *)
(* window.                                                                 *)
(*                                                                         *)
(* Numbers.  The code computes in floating point.  Canvas coordinates are  *)
(* modelled as exact rationals <<numerator, denominator>>; percentages as  *)
(* Python's round (round half to even) of an exact quotient.  For every    *)
(* frame height the model uses (1..39 was compared against CPython, y in   *)
(* -60..h+60) the exact value and the float value round to the same        *)
(* integer; at heights 40 and 480 the float product (1 - y/h) * 100 misses *)
(* exact ties k + 1/2 by one ulp and the code's percentage can differ by   *)
(* one from the exact rounding (e.g. h = 480, y = 204: 57, exact 58).      *)
(*                                                                         *)
(* Images.  A captured frame is modelled by what detect_ball reads from    *)
(* it: its height and, per colour, the contours cv2.findContours returns   *)
(* for the cleaned mask, each with its area and its minimum enclosing      *)
(* circle.  Circle centres are in half pixels, so int() truncates.         *)
(***************************************************************************)
EXTENDS Integers, Sequences, FiniteSets

VARIABLES
    picam2,             \* self.picam2: "None" or "Picamera2"
    camera,             \* the camera device: "absent", "started", "stopped"
    stop_calls,         \* number of picam2.stop() calls made so far
    window,             \* the Tk root: "open" or "destroyed"
    pending,            \* update_frame callbacks registered with root.after
    frame,              \* <<>> or <<f>>: what the last capture_array returned
    ball_positions,     \* self.ball_positions
    last_frame_height,  \* self.last_frame_height
    canvas,             \* the canvas items: circles, texts, ruler ticks
    log                 \* the calls made by the most recent handler, in order

vars == <<picam2, camera, stop_calls, window, pending, frame,
          ball_positions, last_frame_height, canvas, log>>

----------------------------------------------------------------------------
(* Bounds of the model *)

\* frames have heights 1..MaxFrameHeight
MaxFrameHeight == 2
\* the mapping specification: heights 1..MaxMapHeight
MaxMapHeight == 8
\* the mapping specification: y ranges over -Overshoot .. h + Overshoot
Overshoot == 2

----------------------------------------------------------------------------
(* Configuration constants *)

WINDOW_HEIGHT == 720
HEADER_HEIGHT == 90
CANVAS_HEIGHT == WINDOW_HEIGHT - HEADER_HEIGHT
RULER_TOP_MARGIN == 50
RULER_BOTTOM_MARGIN == 0
\* the minimum size filter of detect_ball: radius > 10
MIN_RADIUS == 10
\* self.last_frame_height before the first frame
DEFAULT_FRAME_HEIGHT == 480

\* the keys of HSV_RANGES, in the order the dict iterates
LabelOrder == <<"Blue", "Orange", "Green">>
Labels == {LabelOrder[i] : i \in 1..Len(LabelOrder)}

None == <<>>

Range(s) == {s[i] : i \in 1..Len(s)}

----------------------------------------------------------------------------
(* Arithmetic *)

\* a rational number n/d, d > 0
Rat(n, d) == <<n, d>>
RatEq(a, b) == a[1] * b[2] = b[1] * a[2]
RatLeq(a, b) == a[1] * b[2] <= b[1] * a[2]

\* Python's round(n / d) for d > 0: to the nearest integer, ties to even
PyRound(n, d) ==
    LET q == n \div d
        r == n % d
    IN  IF 2 * r < d THEN q
        ELSE IF 2 * r > d THEN q + 1
        ELSE IF q % 2 = 0 THEN q ELSE q + 1

\* int(v) of a non-negative coordinate given in half pixels
IntOfHalf(v2) == v2 \div 2

----------------------------------------------------------------------------
(* Frames: what the camera can deliver *)

FrameHeights == 1..MaxFrameHeight

\* centres of minimum enclosing circles of contours inside a frame of height
\* h, in half pixels (0 <= y <= h - 1): x = 0.5, and one y per pixel row,
\* k + 0.5 for the rows k above the last one and h - 1 for the last
Centres(h) ==
    {<<1, y2>> : y2 \in {2 * k + 1 : k \in 0..(h - 2)} \cup {2 * (h - 1)}}

\* a contour of a cleaned mask: cv2.contourArea and cv2.minEnclosingCircle
Contours(h) ==
    [area : {1, 2}, centre : Centres(h), radius : {MIN_RADIUS, MIN_RADIUS + 1}]

EmptyMasks == [l \in Labels |-> <<>>]

OneBlob(h) ==
    {[EmptyMasks EXCEPT ![l] = <<c>>] : l \in Labels, c \in Contours(h)}

TwoBlobs(h) ==
    {[m EXCEPT ![l] = Append(m[l], c)] :
        m \in OneBlob(h), l \in Labels, c \in Contours(h)}

\* the frames of height h: none, one or two blobs over the three colours
Frames(h) ==
    {[height |-> h, masks |-> m] :
        m \in {EmptyMasks} \cup OneBlob(h) \cup TwoBlobs(h)}

----------------------------------------------------------------------------
(* Detection *)

\* max(contours, key=cv2.contourArea): the first contour of maximal area
MaxAreaContour(contours) ==
    contours[CHOOSE i \in 1..Len(contours) :
        \A j \in 1..Len(contours) :
            /\ contours[j].area <= contours[i].area
            /\ j < i => contours[j].area < contours[i].area]

\* mutant of DetectedPos: the size filter written radius >= 10
DetectedPos_RadiusGeq(contours) ==
    IF contours # <<>>
    THEN LET c == MaxAreaContour(contours)
         IN  IF c.radius >= MIN_RADIUS
             THEN <<IntOfHalf(c.centre[1]), IntOfHalf(c.centre[2])>>
             ELSE None
    ELSE None

\* the pos that detect_ball computes from the contours of the cleaned mask
DetectedPos(contours) ==
    IF contours # <<>>
    THEN LET c == MaxAreaContour(contours)
         IN  IF c.radius > MIN_RADIUS
             THEN <<IntOfHalf(c.centre[1]), IntOfHalf(c.centre[2])>>
             ELSE None
    ELSE None

\* mutant of detect_ball: the position is stored only when a ball was found
detect_ball_KeepsLast(positions, contours, label) ==
    IF DetectedPos(contours) # None
    THEN [positions EXCEPT ![label] = DetectedPos(contours)]
    ELSE positions

\* detect_ball: self.ball_positions[label] = pos
detect_ball(positions, contours, label) ==
    [positions EXCEPT ![label] = DetectedPos(contours)]

\* the loop of update_frame over HSV_RANGES.items(), from the i-th label on
RECURSIVE DetectLoop(_, _, _)
DetectLoop(positions, f, i) ==
    IF i > Len(LabelOrder) THEN positions
    ELSE DetectLoop(detect_ball(positions, f.masks[LabelOrder[i]], LabelOrder[i]),
                    f, i + 1)

----------------------------------------------------------------------------
(* The canvas *)

RulerValues == {10 * k : k \in 0..10}

\* draw_ruler: the y of the tick drawn for each value
draw_ruler ==
    LET effective_height == CANVAS_HEIGHT - RULER_TOP_MARGIN - RULER_BOTTOM_MARGIN
        ruler_top == RULER_TOP_MARGIN
    IN  [value \in RulerValues |->
            Rat(ruler_top * 100 + (100 - value) * effective_height, 100)]

\* setup_main_panel: ruler, circles at the bottom, texts at 0%
setup_main_panel ==
    [ruler       |-> draw_ruler,
     circle_y    |-> [l \in Labels |-> Rat(CANVAS_HEIGHT, 1)],
     circle_fill |-> [l \in Labels |-> "white"],
     percent     |-> [l \in Labels |-> 0],
     avg         |-> 0]

\* the truth value Python gives a stored position: None is false, a pair true
Present(pos) == pos # None

\* get_canvas_y: clamp ball_y / last_frame_height into [0, 1], scale
get_canvas_y(ball_y, h) ==
    LET normalized == IF ball_y < 0 THEN Rat(0, 1)
                      ELSE IF ball_y > h THEN Rat(1, 1)
                      ELSE Rat(ball_y, h)
    IN  Rat(normalized[1] * CANVAS_HEIGHT, normalized[2])

get_new_center(positions, h, label) ==
    IF Present(positions[label])
    THEN get_canvas_y(positions[label][2], h)
    ELSE Rat(CANVAS_HEIGHT, 1)

\* mutant of Percent: the inversion 1 - y / h forgotten
Percent_NotInverted(pos, h) ==
    IF pos # None THEN PyRound(pos[2] * 100, h) ELSE 0

\* int(round((1 - y / last_frame_height) * 100)) if present else 0
Percent(pos, h) ==
    IF Present(pos) THEN PyRound((h - pos[2]) * 100, h) ELSE 0

FillColour(label) ==
    IF label = "Blue" THEN "blue" ELSE IF label = "Orange" THEN "orange" ELSE "Green"

\* mutant of Average: integer division instead of round
Average_Truncated(percent) ==
    (percent["Blue"] + percent["Orange"] + percent["Green"]) \div 3

\* int(round((blue_percent + orange_percent + Green_percent) / 3))
Average(percent) ==
    PyRound(percent["Blue"] + percent["Orange"] + percent["Green"], 3)

update_ball_indicators(positions, h, cv) ==
    LET percent == [l \in Labels |-> Percent(positions[l], h)]
    IN  [ruler       |-> cv.ruler,
         circle_y    |-> [l \in Labels |-> get_new_center(positions, h, l)],
         circle_fill |-> [l \in Labels |->
                            IF Present(positions[l]) THEN FillColour(l) ELSE "white"],
         percent     |-> percent,
         avg         |-> Average(percent)]

----------------------------------------------------------------------------
(* The application *)

Call(name, arg) == <<name, arg>>
AfterCalls(calls) == Cardinality({i \in 1..Len(calls) : calls[i][1] = "after"})

\* __init__: positions absent, height 480, init_camera succeeds or fails,
\* the panel is set up, and root.after(0, self.update_frame) is registered
Init ==
    /\ picam2 \in {"None", "Picamera2"}
    /\ camera = IF picam2 = "None" THEN "absent" ELSE "started"
    /\ stop_calls = 0
    /\ window = "open"
    /\ pending = 1
    /\ frame = <<>>
    /\ ball_positions = [l \in Labels |-> None]
    /\ last_frame_height = DEFAULT_FRAME_HEIGHT
    /\ canvas = setup_main_panel
    /\ log = <<>>

\* mutant of update_frame_no_camera: returns without root.after
update_frame_no_camera_Stops ==
    /\ picam2 = "None"
    /\ log' = <<>>
    /\ pending' = pending - 1
    /\ UNCHANGED <<picam2, camera, stop_calls, window, frame,
                   ball_positions, last_frame_height, canvas>>

\* update_frame, lines 260-263: no camera
update_frame_no_camera ==
    /\ picam2 = "None"
    /\ log' = <<Call("after", "update_frame")>>
    /\ pending' = pending - 1 + AfterCalls(log')
    /\ UNCHANGED <<picam2, camera, stop_calls, window, frame,
                   ball_positions, last_frame_height, canvas>>

\* mutant of update_frame_no_frame: a failed capture clears the positions
\* and redraws
update_frame_no_frame_Clears ==
    /\ picam2 # "None"
    /\ frame' = <<>>
    /\ ball_positions' = [l \in {"Blue", "Orange", "Green"} |-> <<>>]
    /\ canvas' = update_ball_indicators(ball_positions', last_frame_height, canvas)
    /\ log' = <<<<"capture_array", "">>, <<"after", "update_frame">>>>
    /\ pending' = pending
    /\ UNCHANGED <<picam2, camera, stop_calls, window, last_frame_height>>

\* update_frame, lines 265-269: capture_array returned None
update_frame_no_frame ==
    /\ picam2 # "None"
    /\ frame' = <<>>
    /\ log' = <<Call("capture_array", ""), Call("after", "update_frame")>>
    /\ pending' = pending - 1 + AfterCalls(log')
    /\ UNCHANGED <<picam2, camera, stop_calls, window,
                   ball_positions, last_frame_height, canvas>>

\* mutant of update_frame_processed: root.after is called before and after
\* the processing
update_frame_processed_Twice ==
    /\ picam2 # "None"
    /\ \E h \in FrameHeights : \E f \in Frames(h) :
        /\ frame' = <<f>>
        /\ last_frame_height' = f.height
        /\ ball_positions' = DetectLoop(ball_positions, f, 1)
        /\ canvas' = update_ball_indicators(ball_positions', last_frame_height', canvas)
        /\ log' = <<<<"after", "update_frame">>, <<"capture_array", "">>>>
                  \o [i \in 1..Len(LabelOrder) |-> <<"detect_ball", LabelOrder[i]>>]
                  \o <<<<"update_ball_indicators", "">>, <<"after", "update_frame">>>>
    /\ pending' = pending + 1
    /\ UNCHANGED <<picam2, camera, stop_calls, window>>

\* update_frame, lines 265-287: a frame was captured and is processed
update_frame_processed ==
    /\ picam2 # "None"
    /\ \E h \in FrameHeights : \E f \in Frames(h) :
        /\ frame' = <<f>>
        /\ last_frame_height' = f.height
        /\ ball_positions' = DetectLoop(ball_positions, f, 1)
        /\ canvas' = update_ball_indicators(ball_positions', last_frame_height', canvas)
        /\ log' = <<Call("capture_array", "")>>
                  \o [i \in 1..Len(LabelOrder) |-> Call("detect_ball", LabelOrder[i])]
                  \o <<Call("update_ball_indicators", ""), Call("after", "update_frame")>>
    /\ pending' = pending - 1 + AfterCalls(log')
    /\ UNCHANGED <<picam2, camera, stop_calls, window>>

\* the Tk main loop runs a registered callback while the window exists
update_frame ==
    /\ window = "open"
    /\ pending > 0
    /\ \/ update_frame_no_camera
       \/ update_frame_no_frame
       \/ update_frame_processed

\* mutant of on_closing: the camera is stopped but the window is not destroyed
on_closing_KeepsWindow ==
    /\ window = "open"
    /\ IF picam2 # "None"
       THEN /\ camera' = "stopped"
            /\ stop_calls' = stop_calls + 1
            /\ log' = <<<<"stop", "">>>>
       ELSE /\ UNCHANGED <<camera, stop_calls>>
            /\ log' = <<>>
    /\ UNCHANGED <<window, picam2, pending, frame, ball_positions,
                   last_frame_height, canvas>>

\* on_closing, run by the WM_DELETE_WINDOW protocol of the open window
on_closing ==
    /\ window = "open"
    /\ IF picam2 # "None"
       THEN /\ camera' = "stopped"
            /\ stop_calls' = stop_calls + 1
            /\ log' = <<Call("stop", ""), Call("destroy", "")>>
       ELSE /\ UNCHANGED <<camera, stop_calls>>
            /\ log' = <<Call("destroy", "")>>
    /\ window' = "destroyed"
    /\ UNCHANGED <<picam2, pending, frame, ball_positions, last_frame_height, canvas>>

Next == update_frame \/ on_closing

Spec == Init /\ [][Next]_vars

----------------------------------------------------------------------------
(* The position-to-indicator mapping on its own: update_ball_indicators    *)
(* applied to arbitrary stored positions and frame heights, including y    *)
(* outside the frame.                                                      *)

MapHeights == 1..MaxMapHeight
MapPositions(h) == {None} \cup {<<0, y>> : y \in (0 - Overshoot)..(h + Overshoot)}

MapInit ==
    /\ picam2 = "Picamera2"
    /\ camera = "started"
    /\ stop_calls = 0
    /\ window = "open"
    /\ pending = 1
    /\ frame = <<>>
    /\ last_frame_height \in MapHeights
    /\ ball_positions \in [Labels -> MapPositions(last_frame_height)]
    /\ canvas = setup_main_panel
    /\ log = <<>>

MapApply ==
    /\ log = <<>>
    /\ canvas' = update_ball_indicators(ball_positions, last_frame_height, canvas)
    /\ log' = <<Call("update_ball_indicators", "")>>
    /\ UNCHANGED <<picam2, camera, stop_calls, window, pending, frame,
                   ball_positions, last_frame_height>>

MapNext == MapApply

MapSpec == MapInit /\ [][MapNext]_vars

----------------------------------------------------------------------------
(* Shapes of the handler logs *)

NoCameraLog == <<Call("after", "update_frame")>>
NoFrameLog == <<Call("capture_array", ""), Call("after", "update_frame")>>
ProcessedLog ==
    <<Call("capture_array", ""), Call("detect_ball", "Blue"),
      Call("detect_ball", "Orange"), Call("detect_ball", "Green"),
      Call("update_ball_indicators", ""), Call("after", "update_frame")>>

\* the canvas shows the result of update_ball_indicators on the stored state
Displayed == Call("update_ball_indicators", "") \in Range(log)

AtBottom(l) == RatEq(canvas.circle_y[l], Rat(CANVAS_HEIGHT, 1))

----------------------------------------------------------------------------
(* C1 *)

\* no contour, or every contour of maximal area has an enclosing circle of
\* radius <= 10
NoQualifyingContour(contours) ==
    \A i \in 1..Len(contours) :
        (\A j \in 1..Len(contours) : contours[j].area <= contours[i].area)
            => contours[i].radius <= 10

\* C1: after a processed frame, every label whose cleaned mask has no contour
\* or whose largest-area contour has radius <= 10 has an absent position, is
\* shown at 0% and has its indicator centred at the bottom of the canvas.
C1_AbsentWhenNoQualifyingContour ==
    (frame # <<>> /\ Displayed) =>
        \A l \in Labels :
            NoQualifyingContour(frame[1].masks[l]) =>
                /\ ball_positions[l] = None
                /\ canvas.percent[l] = 0
                /\ AtBottom(l)

\* a processed frame in which one mask is empty, one holds a large contour of
\* radius 10 beside a smaller one of radius 11, and both are shown absent
C1_Witness ==
    /\ frame # <<>> /\ Displayed
    /\ \E l, k \in Labels :
        /\ l # k
        /\ frame[1].masks[l] = <<>>
        /\ Len(frame[1].masks[k]) = 2
        /\ \E i, j \in 1..2 :
            /\ frame[1].masks[k][i].area > frame[1].masks[k][j].area
            /\ frame[1].masks[k][i].radius = 10
            /\ frame[1].masks[k][j].radius = 11
        /\ ball_positions[l] = None /\ ball_positions[k] = None
        /\ canvas.percent[l] = 0 /\ canvas.percent[k] = 0
        /\ AtBottom(l) /\ AtBottom(k)

----------------------------------------------------------------------------
(* C7 *)

\* C7: after every processed frame each entry of ball_positions is the
\* detection result of that frame for that label, whatever was stored before,
\* and a label without qualifying detection is neither stored nor displayed.
C7_NoMemoryAcrossFrames ==
    (frame # <<>> /\ Displayed) =>
        \A l \in Labels :
            /\ ball_positions[l] = DetectedPos(frame[1].masks[l])
            /\ NoQualifyingContour(frame[1].masks[l]) =>
                /\ ball_positions[l] = None
                /\ canvas.circle_fill[l] = "white"
                /\ canvas.percent[l] = 0

\* a processed frame with one label detected and the two others not
C7_Witness ==
    /\ frame # <<>> /\ Displayed
    /\ \E l \in Labels :
        /\ ball_positions[l] # None
        /\ canvas.circle_fill[l] # "white"
        /\ \A k \in Labels \ {l} :
            ball_positions[k] = None /\ canvas.circle_fill[k] = "white"

----------------------------------------------------------------------------
(* C5 *)

C5_State ==
    picam2 = "None" =>
        /\ camera = "absent"
        /\ Call("capture_array", "") \notin Range(log)
        /\ frame = <<>>
        /\ ball_positions = [l \in Labels |-> None]
        /\ last_frame_height = DEFAULT_FRAME_HEIGHT
        /\ canvas.percent = [l \in Labels |-> 0]
        /\ canvas.avg = 0
        /\ \A l \in Labels : AtBottom(l)
        /\ window = "open" => pending = 1

C5_Step ==
    picam2 = "None" =>
        /\ picam2' = "None"
        /\ camera' = "absent"
        /\ UNCHANGED <<ball_positions, last_frame_height, canvas, frame>>
        /\ window' = "open" => (pending' = 1 /\ log' = NoCameraLog)

\* C5: when the camera failed to initialise, every update_frame is a no-op
\* retry: no capture, positions absent, height and display unchanged (0%,
\* indicators at the bottom), the next update_frame scheduled, and the camera
\* never initialised later.
C5_NoCameraNoOpRetry == [](C5_State) /\ [][C5_Step]_vars

\* update_frame has run without a camera
C5_Witness ==
    picam2 = "None" /\ log = NoCameraLog /\ window = "open" /\ pending = 1

----------------------------------------------------------------------------
(* C6 *)

\* C6: an update_frame whose capture fails leaves ball_positions,
\* last_frame_height and the canvas as they were and schedules the next
\* update_frame.
C6_CaptureFailureRetries ==
    [][(log' = NoFrameLog /\ frame' = <<>>) =>
            /\ UNCHANGED <<ball_positions, last_frame_height, canvas>>
            /\ window' = "open"
            /\ pending' = 1]_vars

\* a capture failed after a frame with a detected ball had been processed,
\* and the ball is still stored and displayed
C6_Witness ==
    /\ log = NoFrameLog /\ frame = <<>> /\ pending = 1
    /\ last_frame_height # DEFAULT_FRAME_HEIGHT
    /\ \E l \in Labels : ball_positions[l] # None /\ canvas.percent[l] > 0

----------------------------------------------------------------------------
(* C8 *)

C8_State ==
    /\ stop_calls = IF window = "destroyed" /\ picam2 # "None" THEN 1 ELSE 0
    /\ camera = "stopped" <=> (window = "destroyed" /\ picam2 # "None")
    /\ window = "destroyed" =>
        log = IF picam2 # "None"
              THEN <<Call("stop", ""), Call("destroy", "")>>
              ELSE <<Call("destroy", "")>>

\* C8: on_closing stops the camera exactly once iff it was initialised, then
\* destroys the window, and no capture is attempted once the camera stopped.
C8_ShutdownReleasesCamera ==
    [](C8_State) /\ [][camera = "stopped" => log' = log]_vars

\* the window was closed after frames had been processed
C8_Witness ==
    /\ camera = "stopped" /\ stop_calls = 1 /\ window = "destroyed"
    /\ frame # <<>>

----------------------------------------------------------------------------
(* C9 *)

\* C9: while the window is open exactly one update_frame callback is pending;
\* every update_frame invocation made exactly one root.after call, its last;
\* a processed frame ran capture, detection for Blue, Orange, Green, then the
\* display update, in this order.
C9_SingleReschedulingLoop ==
    /\ window = "open" => pending = 1
    /\ window = "open" => log \in {<<>>, NoCameraLog, NoFrameLog, ProcessedLog}
    /\ (window = "open" /\ log # <<>>) =>
        /\ AfterCalls(log) = 1
        /\ log[Len(log)] = Call("after", "update_frame")
    /\ (window = "open" /\ frame # <<>>) => log = ProcessedLog

\* a frame has been processed and one callback is pending
C9_Witness ==
    window = "open" /\ log = ProcessedLog /\ pending = 1 /\ frame # <<>>

----------------------------------------------------------------------------
(* C10 *)

\* C10 as claimed: an indicator whose ball reads exactly v%, v a ruler value,
\* is centred at the y of the ruler's tick for v.
C10_RulerMatchesIndicators ==
    (frame # <<>> /\ Displayed) =>
        \A l \in Labels : \A v \in RulerValues :
            (/\ ball_positions[l] # None
             /\ (last_frame_height - ball_positions[l][2]) * 100 = v * last_frame_height)
                => RatEq(canvas.circle_y[l], canvas.ruler[v])

----------------------------------------------------------------------------
(* C2, C3, C4: the mapping *)

\* C2: for one frame height h, the percentage of a present ball does not
\* increase with y over 0 <= y <= h, is 100 at y = 0 (also for the stored
\* position (0, 0)) and 0 at y = h.
C2_PercentMonotone ==
    Displayed =>
        /\ \A a, b \in Labels :
            (/\ ball_positions[a] # None /\ ball_positions[b] # None
             /\ 0 <= ball_positions[a][2]
             /\ ball_positions[a][2] <= ball_positions[b][2]
             /\ ball_positions[b][2] <= last_frame_height)
                => canvas.percent[a] >= canvas.percent[b]
        /\ \A l \in Labels :
            /\ ball_positions[l] = <<0, 0>> => canvas.percent[l] = 100
            /\ (ball_positions[l] # None /\ ball_positions[l][2] = last_frame_height)
                => canvas.percent[l] = 0

\* balls at (0, 0), strictly inside the frame and at y = h, read 100, a value
\* strictly between, and 0
C2_Witness ==
    /\ Displayed
    /\ ball_positions["Blue"] = <<0, 0>> /\ canvas.percent["Blue"] = 100
    /\ ball_positions["Green"] # None
    /\ ball_positions["Green"][2] = last_frame_height
    /\ canvas.percent["Green"] = 0
    /\ ball_positions["Orange"] # None
    /\ canvas.percent["Orange"] \in 1..99

C4_AverageIsRoundedMean ==
    Displayed =>
        LET sum == canvas.percent["Blue"] + canvas.percent["Orange"]
                   + canvas.percent["Green"]
            diff == 3 * canvas.avg - sum
        IN  2 * diff <= 3 /\ 2 * diff >= 0 - 3

\* three different percentages inside 1..99 whose mean is rounded up
C4_Witness ==
    /\ Displayed
    /\ \A l \in Labels : canvas.percent[l] \in 1..99
    /\ Cardinality({canvas.percent[l] : l \in Labels}) = 3
    /\ (canvas.percent["Blue"] + canvas.percent["Orange"]
        + canvas.percent["Green"]) % 3 = 2
    /\ 3 * canvas.avg > canvas.percent["Blue"] + canvas.percent["Orange"]
                        + canvas.percent["Green"]

====
